---------------------------- MODULE Spec2Model ----------------------------
(***************************************************************************)
(* A model of the AWS cost report generator: aws-cost-report.py (classes   *)
(* ProjectServiceReport and TotalCostsReport), projectwise.py (the same    *)
(* code as ProjectServiceReport, at module level) and                      *)
(* total_costs_report.py (the stand-alone total cost script).              *)
(*                                                                         *)
(* Text is a sequence of one-character strings, so that split, slicing,    *)
(* strip and lower are computed.  A float is a whole number of thousandths *)
(* of a dollar; the amounts the billing source returns have at most three  *)
(* decimals and none ends in a 5 at the third, so that round(x, 2) has no  *)
(* tie and binary floating point agrees with the decimal arithmetic here.  *)
(***************************************************************************)
EXTENDS Integers, Sequences, FiniteSets, TLC

(***************************************************************************)
(* Text.                                                                   *)
(***************************************************************************)
UpperCase == <<"A","B","C","D","E","F","G","H","I","J","K","L","M",
               "N","O","P","Q","R","S","T","U","V","W","X","Y","Z">>

LowerCase == <<"a","b","c","d","e","f","g","h","i","j","k","l","m",
               "n","o","p","q","r","s","t","u","v","w","x","y","z">>

Digits == <<"0","1","2","3","4","5","6","7","8","9">>

Whitespace == {" ", "\t", "\n"}

\* str.lower() on one character.
LowerChar(c) ==
    IF \E i \in DOMAIN UpperCase : UpperCase[i] = c
    THEN LowerCase[CHOOSE i \in DOMAIN UpperCase : UpperCase[i] = c]
    ELSE c

\* str.lower()
Lower(s) == [i \in DOMAIN s |-> LowerChar(s[i])]

\* s[:n]
Slice(s, n) == IF Len(s) <= n THEN s ELSE SubSeq(s, 1, n)

\* s.startswith(p)
StartsWith(s, p) == Len(s) >= Len(p) /\ SubSeq(s, 1, Len(p)) = p

\* s.strip(): the text without its leading and trailing whitespace.
RECURSIVE LStrip(_)
LStrip(s) ==
    IF s # <<>> /\ Head(s) \in Whitespace THEN LStrip(Tail(s)) ELSE s

RECURSIVE RStrip(_)
RStrip(s) ==
    IF s # <<>> /\ s[Len(s)] \in Whitespace
    THEN RStrip(SubSeq(s, 1, Len(s) - 1)) ELSE s

Strip(s) == RStrip(LStrip(s))

\* s.split(d) for a one-character d: the pieces between the delimiters.
RECURSIVE SplitFrom(_, _, _)
SplitFrom(s, d, piece) ==
    IF s = <<>> THEN <<piece>>
    ELSE IF Head(s) = d THEN <<piece>> \o SplitFrom(Tail(s), d, <<>>)
    ELSE SplitFrom(Tail(s), d, Append(piece, Head(s)))

Split(s, d) == SplitFrom(s, d, <<>>)

\* str(n) for n >= 0, as the f-string "{counter}" formats it.
RECURSIVE IntToStr(_)
IntToStr(n) ==
    IF n < 10 THEN <<Digits[n + 1]>>
    ELSE IntToStr(n \div 10) \o <<Digits[(n % 10) + 1]>>

(***************************************************************************)
(* Numbers.                                                                *)
(***************************************************************************)
IsDigit(c) == \E i \in DOMAIN Digits : Digits[i] = c

DigitVal(c) == (CHOOSE i \in DOMAIN Digits : Digits[i] = c) - 1

AllDigits(s) == \A i \in DOMAIN s : IsDigit(s[i])

RECURSIVE DigitsVal(_)
DigitsVal(s) ==
    IF s = <<>> THEN 0
    ELSE DigitsVal(SubSeq(s, 1, Len(s) - 1)) * 10 + DigitVal(s[Len(s)])

\* The fraction digits of a literal, in thousandths (digits after the third
\* are below the unit of the model and are dropped).
FracVal(s) ==
    LET d(i) == IF i <= Len(s) THEN DigitVal(s[i]) ELSE 0
    IN  d(1) * 100 + d(2) * 10 + d(3)

\* The unsigned decimal literals float() accepts: digits, with at most one
\* point, and at least one digit.
IsDecimal(s) ==
    LET parts == Split(s, ".")
    IN  /\ Len(parts) \in {1, 2}
        /\ \A i \in DOMAIN parts : AllDigits(parts[i])
        /\ \E i \in DOMAIN parts : parts[i] # <<>>

DecimalVal(s) ==
    LET parts == Split(s, ".")
    IN  DigitsVal(parts[1]) * 1000
          + (IF Len(parts) = 2 THEN FracVal(parts[2]) ELSE 0)

\* float(s): surrounding whitespace is ignored, one sign is allowed; anything
\* else raises ValueError.
ParseFloat(s) ==
    LET t    == Strip(s)
        neg  == t # <<>> /\ Head(t) = "-"
        sgn  == t # <<>> /\ Head(t) \in {"-", "+"}
        body == IF sgn THEN Tail(t) ELSE t
    IN  IF IsDecimal(body)
        THEN [ok |-> TRUE,
              value |-> IF neg THEN 0 - DecimalVal(body) ELSE DecimalVal(body)]
        ELSE [ok |-> FALSE, value |-> 0]

\* round(x, 2): to the nearest hundredth, a tie to the even one.
Round2(x) ==
    LET q == x \div 10
        r == x % 10
    IN  IF r < 5 THEN q * 10
        ELSE IF r > 5 THEN (q + 1) * 10
        ELSE IF q % 2 = 0 THEN q * 10 ELSE (q + 1) * 10

\* A float that is not a number: what pandas puts where a left merge finds no
\* partner.  It is a value of its own, below every amount of the model; the
\* arithmetic below never computes with it.
NaN == 0 - 10^9

IsNaN(x) == x = NaN

\* a - b on floats.
Sub(a, b) == IF IsNaN(a) \/ IsNaN(b) THEN NaN ELSE a - b

\* Series.sum(): the sum of a column, NaN skipped; 0 for an empty column.
RECURSIVE SeriesSum(_)
SeriesSum(col) ==
    IF col = <<>> THEN 0
    ELSE (IF IsNaN(Head(col)) THEN 0 ELSE Head(col)) + SeriesSum(Tail(col))

(***************************************************************************)
(* The literals of the program.                                            *)
(***************************************************************************)
ProjectPrefix == <<"P","r","o","j","e","c","t","$">>

NoProjectTag == <<"N","o"," ","P","r","o","j","e","c","t"," ","T","a","g">>

NoService == <<"N","o"," ","S","e","r","v","i","c","e">>

UnnamedProject ==
    <<"U","n","n","a","m","e","d","_","P","r","o","j","e","c","t">>

TotalLabel == <<"T","o","t","a","l">>

\* The length a sheet name is cut to.
MaxSheetBase == 28

(***************************************************************************)
(* A Python dict: its items in insertion order.  Assigning to a key that   *)
(* is present replaces the value where it stands.                          *)
(***************************************************************************)
DictKeys(d) == {d[i].key : i \in DOMAIN d}

DictHas(d, k) == \E i \in DOMAIN d : d[i].key = k

DictGet(d, k) == d[CHOOSE i \in DOMAIN d : d[i].key = k].value

DictPut(d, k, v) ==
    IF DictHas(d, k)
    THEN [i \in DOMAIN d |-> IF d[i].key = k THEN [key |-> k, value |-> v]
                                              ELSE d[i]]
    ELSE Append(d, [key |-> k, value |-> v])

\* costs.get(field, 0)
GetOr0(costs, field) == IF field \in DOMAIN costs THEN costs[field] ELSE 0

(***************************************************************************)
(* Key normalisation.                                                      *)
(***************************************************************************)
IsProjectTag(tag) == StartsWith(tag, ProjectPrefix)

\* next((tag.split('$')[1] for tag in keys if tag.startswith('Project$')),
\*      'No Project Tag')
ProjectTagOf(keys) ==
    LET tags == SelectSeq(keys, IsProjectTag)
    IN  IF tags # <<>> THEN Split(Head(tags), "$")[2] ELSE NoProjectTag

\* next((svc for svc in keys if not svc.startswith('Project$')), 'No Service')
ServiceOf(keys) ==
    LET NotTag(k) == ~IsProjectTag(k)
        svcs == SelectSeq(keys, NotTag)
    IN  IF svcs # <<>> THEN Head(svcs) ELSE NoService

\* keys[0].split('$')[1] if keys[0].startswith('Project$') else 'No Project Tag'
FirstKeyProject(keys) ==
    IF IsProjectTag(keys[1]) THEN Split(keys[1], "$")[2] ELSE NoProjectTag

\* AmountOf with a text that is no number taken for 0.
AmountOf_ZeroOnError(item) ==
    [ok |-> TRUE, value |-> ParseFloat(item.Metrics.UnblendedCost.Amount).value]

\* float(item['Metrics']['UnblendedCost']['Amount'])
AmountOf(item) == ParseFloat(item.Metrics.UnblendedCost.Amount)

(***************************************************************************)
(* ProjectServiceReport.process_data (and projectwise.py, lines 56 to 83). *)
(* The result is [error, value]: the exception raised, or "none" and the   *)
(* mapping project -> service -> costs.                                    *)
(***************************************************************************)
Raise(e) == [error |-> e, value |-> <<>>]

Return(v) == [error |-> "none", value |-> v]

\* One pass of the loop over cost_data_current.
CurrentItem(project_costs, item) ==
    LET project_tag == ProjectTagOf(item.Keys)
        service     == ServiceOf(item.Keys)
        amount      == AmountOf(item)
        with        == IF DictHas(project_costs, project_tag)
                       THEN project_costs
                       ELSE DictPut(project_costs, project_tag, <<>>)
    IN  IF ~amount.ok THEN Raise("ValueError")
        ELSE Return(DictPut(with, project_tag,
                 DictPut(DictGet(with, project_tag), service,
                         "Current Cost" :> amount.value)))

\* One pass of the loop over cost_data_previous.
PreviousItem(project_costs, item) ==
    LET project_tag == ProjectTagOf(item.Keys)
        service     == ServiceOf(item.Keys)
        amount      == AmountOf(item)
        with        == IF DictHas(project_costs, project_tag)
                       THEN project_costs
                       ELSE DictPut(project_costs, project_tag, <<>>)
        services    == DictGet(with, project_tag)
        costs       == IF DictHas(services, service)
                       THEN DictGet(services, service) ELSE <<>>
    IN  IF ~amount.ok THEN Raise("ValueError")
        ELSE Return(DictPut(with, project_tag,
                 DictPut(services, service,
                         ("Previous Cost" :> amount.value) @@ costs)))

RECURSIVE CurrentLoop(_, _)
CurrentLoop(project_costs, items) ==
    IF items = <<>> THEN Return(project_costs)
    ELSE LET r == CurrentItem(project_costs, Head(items))
         IN  IF r.error # "none" THEN r ELSE CurrentLoop(r.value, Tail(items))

RECURSIVE PreviousLoop(_, _)
PreviousLoop(project_costs, items) ==
    IF items = <<>> THEN Return(project_costs)
    ELSE LET r == PreviousItem(project_costs, Head(items))
         IN  IF r.error # "none" THEN r ELSE PreviousLoop(r.value, Tail(items))

PSR_process_data(data_current, data_previous) ==
    LET r == CurrentLoop(<<>>, data_current)
    IN  IF r.error # "none" THEN r ELSE PreviousLoop(r.value, data_previous)

(***************************************************************************)
(* get_unique_sheet_name                                                   *)
(***************************************************************************)
\* LowerNames without the lower().
LowerNames_CaseSensitive(used_names) == used_names

LowerNames(used_names) == {Lower(name) : name \in used_names}

\* BaseName with the fallback for the empty text only.
BaseName_NoStrip(project) ==
    IF project # <<>> THEN Slice(project, MaxSheetBase) ELSE UnnamedProject

BaseName(project) ==
    IF Strip(project) # <<>> THEN Slice(project, MaxSheetBase)
    ELSE UnnamedProject

RECURSIVE UniqueLoop(_, _, _, _)
UniqueLoop(base_name, used_names, sheet_name, counter) ==
    IF Lower(sheet_name) \in LowerNames(used_names)
    THEN UniqueLoop(base_name, used_names,
                    base_name \o <<"_">> \o IntToStr(counter), counter + 1)
    ELSE sheet_name

get_unique_sheet_name(project, used_names) ==
    UniqueLoop(BaseName(project), used_names, BaseName(project), 1)


(***************************************************************************)
(* A pandas DataFrame: the column names in order, and the rows, each a     *)
(* mapping from column name to value.                                      *)
(***************************************************************************)
Col(name) == [name |-> name]

\* f"Cost of {period['start_date']} to {period['end_date']}"
CostOf(period) ==
    [name |-> "Cost of", start_date |-> period.start_date,
     end_date |-> period.end_date]

\* pd.DataFrame(data) of a list of dicts that all have the keys `columns`:
\* an empty list gives a frame with no columns at all.
DataFrame(data, columns) ==
    IF data = <<>> THEN [columns |-> <<>>, rows |-> <<>>]
    ELSE [columns |-> columns, rows |-> data]

HasColumn(df, c) == \E j \in DOMAIN df.columns : df.columns[j] = c

\* df[c]
Series(df, c) == [i \in DOMAIN df.rows |-> df.rows[i][c]]

\* pd.concat([df, other], ignore_index=True) of two frames with the same
\* column names: the rows of both, aligned by name.
Concat(df, other) == [columns |-> df.columns, rows |-> df.rows \o other.rows]

\* The place of a row in rows sorted by descending c: behind every row that
\* is at least as large (the sort of a frame of fewer than 16 rows is an
\* insertion sort and keeps equal rows in their order).
RECURSIVE InsertDesc(_, _, _)
InsertDesc(sorted, row, c) ==
    IF sorted = <<>> THEN <<row>>
    ELSE IF Head(sorted)[c] >= row[c]
         THEN <<Head(sorted)>> \o InsertDesc(Tail(sorted), row, c)
         ELSE <<row>> \o sorted

RECURSIVE SortRowsDesc(_, _, _)
SortRowsDesc(sorted, rows, c) ==
    IF rows = <<>> THEN sorted
    ELSE SortRowsDesc(InsertDesc(sorted, Head(rows), c), Tail(rows), c)

\* df.sort_values(by=c, ascending=False)
SortValuesDesc(df, c) ==
    [columns |-> df.columns, rows |-> SortRowsDesc(<<>>, df.rows, c)]

(***************************************************************************)
(* ProjectServiceReport.generate_excel, the ExcelWriter block (and         *)
(* projectwise.py, lines 89 to 126).                                       *)
(***************************************************************************)
ServiceCol == Col("Service")

CurrentCol == Col("Current Cost (USD)")

PreviousCol == Col("Previous Cost (USD)")

DifferenceCol == Col("Difference (USD)")

PSR_Columns == <<ServiceCol, CurrentCol, PreviousCol, DifferenceCol>>

\* ServiceRow with the subtraction turned around.
ServiceRow_Reversed(service, costs) ==
    LET current_cost  == GetOr0(costs, "Current Cost")
        previous_cost == GetOr0(costs, "Previous Cost")
        difference    == previous_cost - current_cost
    IN  (ServiceCol :> service) @@ (CurrentCol :> Round2(current_cost))
          @@ (PreviousCol :> Round2(previous_cost))
          @@ (DifferenceCol :> Round2(difference))

\* The dict appended to data for one service.
ServiceRow(service, costs) ==
    LET current_cost  == GetOr0(costs, "Current Cost")
        previous_cost == GetOr0(costs, "Previous Cost")
        difference    == current_cost - previous_cost
    IN  (ServiceCol :> service) @@ (CurrentCol :> Round2(current_cost))
          @@ (PreviousCol :> Round2(previous_cost))
          @@ (DifferenceCol :> Round2(difference))

\* The totals of a sorted frame, as the one-row frame total_row.
PSR_TotalRow(df) ==
    LET total_current_cost  == SeriesSum(Series(df, CurrentCol))
        total_previous_cost == SeriesSum(Series(df, PreviousCol))
        total_difference    == total_current_cost - total_previous_cost
    IN  [columns |-> PSR_Columns,
         rows |-> << (ServiceCol :> TotalLabel)
                       @@ (CurrentCol :> Round2(total_current_cost))
                       @@ (PreviousCol :> Round2(total_previous_cost))
                       @@ (DifferenceCol :> Round2(total_difference)) >>]

\* The frame written for one project: error "KeyError" when the frame has no
\* column to sort by.
ProjectFrame(services) ==
    LET data == [i \in DOMAIN services |->
                    ServiceRow(services[i].key, services[i].value)]
        df   == DataFrame(data, PSR_Columns)
    IN  IF ~HasColumn(df, CurrentCol) THEN Raise("KeyError")
        ELSE LET sorted == SortValuesDesc(df, CurrentCol)
             IN  Return(Concat(sorted, PSR_TotalRow(sorted)))

\* The loop over project_costs.items(): the sheets written so far, and the
\* names in use.
RECURSIVE SheetLoop(_, _, _)
SheetLoop(items, used_sheet_names, sheets) ==
    IF items = <<>> THEN Return(sheets)
    ELSE LET project    == Head(items).key
             sheet_name == get_unique_sheet_name(project, used_sheet_names)
             frame      == ProjectFrame(Head(items).value)
         IN  IF frame.error # "none" THEN frame
             ELSE SheetLoop(Tail(items), used_sheet_names \cup {sheet_name},
                            Append(sheets, [sheet_name |-> sheet_name,
                                            df |-> frame.value]))

\* Leaving the ExcelWriter block saves the workbook; openpyxl refuses to save
\* a workbook without a sheet.
PSR_write_sheets(project_costs) ==
    LET r == SheetLoop(project_costs, {}, <<>>)
    IN  IF r.error # "none" THEN r
        ELSE IF r.value = <<>> THEN Raise("IndexError")
        ELSE r


(***************************************************************************)
(* Dates: <<year, month, day>>.                                            *)
(***************************************************************************)
IsLeap(y) == (y % 4 = 0 /\ y % 100 # 0) \/ y % 400 = 0

DaysInMonth(y, m) ==
    IF m = 2 THEN (IF IsLeap(y) THEN 29 ELSE 28)
    ELSE IF m \in {4, 6, 9, 11} THEN 30 ELSE 31

\* d - relativedelta(months=k), for the first day of a month.
MinusMonths(d, k) ==
    LET total == d[1] * 12 + (d[2] - 1) - k
    IN  <<total \div 12, (total % 12) + 1, 1>>

\* d - timedelta(days=1), for the first day of a month.
MinusDay(d) ==
    LET p == MinusMonths(d, 1)
    IN  <<p[1], p[2], DaysInMonth(p[1], p[2])>>

\* d.replace(day=1)
FirstOfMonth(d) == <<d[1], d[2], 1>>

\* d.replace(month=d.month % 12 + 1)
NextMonthSameYear(d) == <<d[1], (d[2] % 12) + 1, d[3]>>

\* ProjectServiceReport.get_time_periods
get_time_periods(now) ==
    LET current_month  == FirstOfMonth(now)
        previous_month == FirstOfMonth(MinusDay(current_month))
    IN  [current  |-> [Start |-> current_month,
                       End |-> NextMonthSameYear(current_month)],
         previous |-> [Start |-> previous_month,
                       End |-> NextMonthSameYear(previous_month)]]

\* TotalCostsReport.get_date_ranges
get_date_ranges(now) ==
    LET current_month_start == FirstOfMonth(now)
        first_month_start   == MinusMonths(current_month_start, 1)
        first_month_end     == MinusDay(current_month_start)
        second_month_start  == MinusMonths(current_month_start, 2)
        second_month_end    == MinusDay(first_month_start)
    IN  [first_month  |-> [start_date |-> second_month_start,
                           end_date |-> second_month_end],
         second_month |-> [start_date |-> first_month_start,
                           end_date |-> first_month_end]]

NoPeriod == [start_date |-> <<>>, end_date |-> <<>>]

(***************************************************************************)
(* TotalCostsReport.process_data                                           *)
(***************************************************************************)
ProjectCol == Col("Project")

DiffCol == Col("Difference")

\* The dict comprehension {project: float(amount) for item in data}.
RECURSIVE CostsDict(_, _)
CostsDict(costs, items) ==
    IF items = <<>> THEN Return(costs)
    ELSE LET project == FirstKeyProject(Head(items).Keys)
             amount  == AmountOf(Head(items))
         IN  IF ~amount.ok THEN Raise("ValueError")
             ELSE CostsDict(DictPut(costs, project, amount.value), Tail(items))

\* costs.get(project, 0)
CostOr0(costs, project) ==
    IF DictHas(costs, project) THEN DictGet(costs, project) ELSE 0

\* The orders in which a set can be iterated.
Orderings(S) ==
    {o \in [1..Cardinality(S) -> S] : \A x \in S : \E i \in DOMAIN o : o[i] = x}

TCR_Columns(first_month, second_month) ==
    <<ProjectCol, CostOf(second_month), CostOf(first_month), DiffCol>>

\* The dict appended to data for one project.
ProjectRow(project, first_cost, second_cost, first_month, second_month) ==
    (ProjectCol :> project) @@ (CostOf(second_month) :> Round2(second_cost))
      @@ (CostOf(first_month) :> Round2(first_cost))
      @@ (DiffCol :> Round2(first_cost - second_cost))

TCR_TotalsRow(df, first_month, second_month) ==
    LET total_first      == SeriesSum(Series(df, CostOf(first_month)))
        total_second     == SeriesSum(Series(df, CostOf(second_month)))
        total_difference == total_first - total_second
    IN  [columns |-> TCR_Columns(first_month, second_month),
         rows |-> << (ProjectCol :> TotalLabel)
                       @@ (CostOf(second_month) :> Round2(total_second))
                       @@ (CostOf(first_month) :> Round2(total_first))
                       @@ (DiffCol :> Round2(total_difference)) >>]

\* The frame built from the two dicts, the set all_projects being iterated in
\* the order `order`.
TCR_Frame(first_month_costs, second_month_costs, order, first_month, second_month) ==
    LET data == [i \in DOMAIN order |->
                    ProjectRow(order[i],
                               CostOr0(first_month_costs, order[i]),
                               CostOr0(second_month_costs, order[i]),
                               first_month, second_month)]
        df   == DataFrame(data, TCR_Columns(first_month, second_month))
    IN  IF ~HasColumn(df, CostOf(first_month)) THEN Raise("KeyError")
        ELSE Return(Concat(df, TCR_TotalsRow(df, first_month, second_month)))

\* set(first_month_costs.keys()).union(second_month_costs.keys())
AllProjects(first_month_costs, second_month_costs) ==
    DictKeys(first_month_costs) \cup DictKeys(second_month_costs)

(***************************************************************************)
(* total_costs_report.py                                                   *)
(***************************************************************************)
CostCol == Col("Cost (USD)")

\* fetch_cost_data, lines 57 to 63: the list report_data.
RECURSIVE ReportData(_, _)
ReportData(report_data, items) ==
    IF items = <<>> THEN Return(report_data)
    ELSE LET project == ProjectTagOf(Head(items).Keys)
             amount  == AmountOf(Head(items))
         IN  IF ~amount.ok THEN Raise("ValueError")
             ELSE ReportData(Append(report_data,
                                 (ProjectCol :> project)
                                   @@ (CostCol :> Round2(amount.value))),
                             Tail(items))

\* The rows a left merge makes of one row of the left frame: one for each
\* row of the right frame with the same Project, or one with NaN when there
\* is none.  x is the left cost, y the right cost.
MergeRow(left, right_rows) ==
    LET partners == SelectSeq(right_rows,
                              LAMBDA r : r[ProjectCol] = left[ProjectCol])
    IN  IF partners = <<>>
        THEN << [Project |-> left[ProjectCol], x |-> left[CostCol], y |-> NaN] >>
        ELSE [i \in DOMAIN partners |->
                 [Project |-> left[ProjectCol], x |-> left[CostCol],
                  y |-> partners[i][CostCol]]]

RECURSIVE MergeRows(_, _)
MergeRows(left_rows, right_rows) ==
    IF left_rows = <<>> THEN <<>>
    ELSE MergeRow(Head(left_rows), right_rows)
           \o MergeRows(Tail(left_rows), right_rows)

\* Lines 76 to 105: merge, rename, Difference, totals.
TCS_Frame(first_month_data, second_month_data, first_month, second_month) ==
    LET first_df  == DataFrame(first_month_data, <<ProjectCol, CostCol>>)
        second_df == DataFrame(second_month_data, <<ProjectCol, CostCol>>)
        merged    == MergeRows(first_df.rows, second_df.rows)
        \* 'Cost (USD)_x' is renamed to the second month's name and
        \* 'Cost (USD)_y' to the first month's.
        renamed   == [i \in DOMAIN merged |->
                        (ProjectCol :> merged[i].Project)
                          @@ (CostOf(second_month) :> merged[i].x)
                          @@ (CostOf(first_month) :> merged[i].y)]
        with_diff == [i \in DOMAIN renamed |->
                        renamed[i] @@
                        (DiffCol :> Sub(renamed[i][CostOf(first_month)],
                                        renamed[i][CostOf(second_month)]))]
        merged_df == [columns |-> <<ProjectCol, CostOf(second_month),
                                    CostOf(first_month), DiffCol>>,
                      rows |-> with_diff]
        totals_row ==
            [columns |-> <<ProjectCol, CostOf(first_month),
                           CostOf(second_month), DiffCol>>,
             rows |-> << (ProjectCol :> TotalLabel)
                  @@ (CostOf(first_month) :>
                        SeriesSum(Series(merged_df, CostOf(first_month))))
                  @@ (CostOf(second_month) :>
                        SeriesSum(Series(merged_df, CostOf(second_month))))
                  @@ (DiffCol :> SeriesSum(Series(merged_df, DiffCol))) >>]
    IN  IF ~HasColumn(first_df, ProjectCol) \/ ~HasColumn(second_df, ProjectCol)
        THEN Raise("KeyError")
        ELSE Return(Concat(merged_df, totals_row))


(***************************************************************************)
(* The billing source: what get_cost_and_usage can return.                 *)
(***************************************************************************)
\* The most records the two responses of one run hold together.
MaxRecords == 2

\* The most times the program is run on the same billing data.
MaxRuns == 2

TagA == ProjectPrefix \o <<"A">>

\* The key of the resources without a Project tag.
TagNone == ProjectPrefix

EC2 == <<"E","C","2">>

S3 == <<"S","3">>

Tags == {TagA, TagNone}

Services == {EC2, S3}

\* Two amounts and a text that is no number.
Amounts == {<<"0",".","0","0","4">>, <<"2",".","5">>, <<"a","b","c">>}

\* The days the program is run on.
Days == {<<2024, 1, 15>>, <<2024, 3, 31>>}

Group(keys, amount) ==
    [Keys |-> keys, Metrics |-> [UnblendedCost |-> [Amount |-> amount]]]

\* Groups of a query grouped by the Project tag and the service.
ProjectServiceGroups ==
    {Group(<<t, s>>, a) : t \in Tags, s \in Services, a \in Amounts}

\* Groups of a query grouped by the Project tag.
ProjectGroups == {Group(<<t>>, a) : t \in Tags, a \in Amounts}

\* The responses of at most n groups.
Responses(groups, n) == UNION {[1..k -> groups] : k \in 0..n}

(***************************************************************************)
(* The state.                                                              *)
(***************************************************************************)
VARIABLES
    today,                 \* datetime.now()
    run,                   \* how many times the program was started
    report,                \* the report chosen: "psr", "tcr", "tcs" (the script)
    pc,                    \* where generate_report stands
    billing,               \* the queries answered so far, with their answers
    time_period_current,   \* ProjectServiceReport
    time_period_previous,
    cost_data_current,
    cost_data_previous,
    project_costs,
    first_month,           \* TotalCostsReport and total_costs_report.py
    second_month,
    first_month_data,
    second_month_data,
    merged_df,
    file,                  \* the output file
    writes,                \* how often this run opened the output file to write
    error,                 \* the exception that ended the run, or "none"
    previous_output,       \* the output file as the run before left it
    used_sheet_names,      \* generate_excel's set of the names in use
    named,                 \* the projects named so far, each with its name
    keys,                  \* item['Keys'] of one group
    project_key            \* the project a program made of keys, and which

run_vars == <<today, run, report, pc, billing, time_period_current,
              time_period_previous, cost_data_current, cost_data_previous,
              project_costs, first_month, second_month, first_month_data,
              second_month_data, merged_df, file, writes, error,
              previous_output>>

name_vars == <<used_sheet_names, named>>

key_vars == <<keys, project_key>>

vars == <<run_vars, name_vars, key_vars>>

psr_vars == <<time_period_current, time_period_previous, cost_data_current,
              cost_data_previous, project_costs>>

tcr_vars == <<first_month, second_month, first_month_data, second_month_data,
              merged_df>>

NoFile == [status |-> "absent", sheets |-> <<>>]

NoWindow == [Start |-> <<>>, End |-> <<>>]

NoFrame == [columns |-> <<>>, rows |-> <<>>]

Init ==
    /\ today \in Days
    /\ run = 1
    /\ report = "none"
    /\ pc = "menu"
    /\ billing = <<>>
    /\ time_period_current = NoWindow
    /\ time_period_previous = NoWindow
    /\ cost_data_current = <<>>
    /\ cost_data_previous = <<>>
    /\ project_costs = <<>>
    /\ first_month = NoPeriod
    /\ second_month = NoPeriod
    /\ first_month_data = <<>>
    /\ second_month_data = <<>>
    /\ merged_df = NoFrame
    /\ file = NoFile
    /\ writes = 0
    /\ error = "none"
    /\ previous_output = NoFile
    /\ used_sheet_names = {}
    /\ named = <<>>
    /\ keys = <<>>
    /\ project_key = [by |-> "idle", value |-> <<>>]

\* The billing source answers a query it has answered before as before.
Answers(query, fresh) ==
    IF \E i \in DOMAIN billing : billing[i].query = query
    THEN {billing[CHOOSE i \in DOMAIN billing : billing[i].query = query].groups}
    ELSE fresh

Answered(query, groups) ==
    IF \E i \in DOMAIN billing : billing[i].query = query
    THEN billing
    ELSE Append(billing, [query |-> query, groups |-> groups])

(***************************************************************************)
(* main: the menu, and the first lines of generate_report.                 *)
(***************************************************************************)
\* A run begins with the locals of the run before gone.
Menu(choice) ==
    /\ pc = "menu"
    /\ run = 1 \/ choice = report
    /\ report' = choice
    /\ pc' = "fetch_first"
    /\ IF choice = "psr"
       THEN /\ time_period_current' = get_time_periods(today).current
            /\ time_period_previous' = get_time_periods(today).previous
            /\ UNCHANGED <<first_month, second_month>>
       ELSE /\ first_month' = get_date_ranges(today).first_month
            /\ second_month' = get_date_ranges(today).second_month
            /\ UNCHANGED <<time_period_current, time_period_previous>>
    /\ UNCHANGED <<today, run, billing, cost_data_current, cost_data_previous,
                   project_costs, first_month_data, second_month_data,
                   merged_df, file, writes, error, previous_output>>
    /\ UNCHANGED <<name_vars, key_vars>>

\* The program is started again on the same day, the billing data unchanged.
Restart ==
    /\ pc = "done"
    /\ run < MaxRuns
    /\ run' = run + 1
    /\ pc' = "menu"
    /\ previous_output' = file
    /\ writes' = 0
    /\ cost_data_current' = <<>>
    /\ cost_data_previous' = <<>>
    /\ project_costs' = <<>>
    /\ first_month_data' = <<>>
    /\ second_month_data' = <<>>
    /\ merged_df' = NoFrame
    /\ UNCHANGED <<today, report, billing, time_period_current,
                   time_period_previous, first_month, second_month, file,
                   error>>
    /\ UNCHANGED <<name_vars, key_vars>>

(***************************************************************************)
(* ProjectServiceReport.generate_report                                    *)
(***************************************************************************)
PSR_FetchCurrent ==
    /\ report = "psr"
    /\ pc = "fetch_first"
    /\ LET query == [TimePeriod |-> time_period_current, GroupBy |-> "TAG+SERVICE"]
       IN  \E groups \in Answers(query, Responses(ProjectServiceGroups, MaxRecords)) :
              /\ cost_data_current' = groups
              /\ billing' = Answered(query, groups)
    /\ pc' = "fetch_second"
    /\ UNCHANGED <<today, run, report, time_period_current, time_period_previous,
                   cost_data_previous, project_costs, tcr_vars, file, writes,
                   error, previous_output>>
    /\ UNCHANGED <<name_vars, key_vars>>

PSR_FetchPrevious ==
    /\ report = "psr"
    /\ pc = "fetch_second"
    /\ LET query == [TimePeriod |-> time_period_previous, GroupBy |-> "TAG+SERVICE"]
       IN  \E groups \in Answers(query, Responses(ProjectServiceGroups,
                                     MaxRecords - Len(cost_data_current))) :
              /\ cost_data_previous' = groups
              /\ billing' = Answered(query, groups)
    /\ pc' = "process"
    /\ UNCHANGED <<today, run, report, time_period_current, time_period_previous,
                   cost_data_current, project_costs, tcr_vars, file, writes,
                   error, previous_output>>
    /\ UNCHANGED <<name_vars, key_vars>>

PSR_ProcessData ==
    /\ report = "psr"
    /\ pc = "process"
    /\ LET r == PSR_process_data(cost_data_current, cost_data_previous)
       IN  /\ project_costs' = r.value
           /\ error' = r.error
           /\ pc' = IF r.error = "none" THEN "excel" ELSE "failed"
    /\ UNCHANGED <<today, run, report, billing, time_period_current,
                   time_period_previous, cost_data_current, cost_data_previous,
                   tcr_vars, file, writes, previous_output>>
    /\ UNCHANGED <<name_vars, key_vars>>

\* The ExcelWriter block: the file is opened for writing, and holds the
\* sheets when the block is left.
PSR_WriteSheets ==
    /\ report = "psr"
    /\ pc = "excel"
    /\ LET r == PSR_write_sheets(project_costs)
       IN  /\ file' = IF r.error = "none"
                      THEN [status |-> "data", sheets |-> r.value]
                      ELSE [status |-> "partial", sheets |-> <<>>]
           /\ error' = r.error
           /\ pc' = IF r.error = "none" THEN "format" ELSE "failed"
    /\ writes' = writes + 1
    /\ UNCHANGED <<today, run, report, billing, psr_vars, tcr_vars,
                   previous_output>>
    /\ UNCHANGED <<name_vars, key_vars>>

(***************************************************************************)
(* TotalCostsReport.generate_report                                        *)
(***************************************************************************)
TCR_FetchFirst ==
    /\ report = "tcr"
    /\ pc = "fetch_first"
    /\ LET query == [TimePeriod |-> first_month, GroupBy |-> "TAG"]
       IN  \E groups \in Answers(query, Responses(ProjectGroups, MaxRecords)) :
              /\ first_month_data' = groups
              /\ billing' = Answered(query, groups)
    /\ pc' = "fetch_second"
    /\ UNCHANGED <<today, run, report, psr_vars, first_month, second_month,
                   second_month_data, merged_df, file, writes, error,
                   previous_output>>
    /\ UNCHANGED <<name_vars, key_vars>>

TCR_FetchSecond ==
    /\ report = "tcr"
    /\ pc = "fetch_second"
    /\ LET query == [TimePeriod |-> second_month, GroupBy |-> "TAG"]
       IN  \E groups \in Answers(query, Responses(ProjectGroups,
                                     MaxRecords - Len(first_month_data))) :
              /\ second_month_data' = groups
              /\ billing' = Answered(query, groups)
    /\ pc' = "process"
    /\ UNCHANGED <<today, run, report, psr_vars, first_month, second_month,
                   first_month_data, merged_df, file, writes, error,
                   previous_output>>
    /\ UNCHANGED <<name_vars, key_vars>>

\* process_data: the set all_projects is iterated in an order that the hash
\* seed of the process decides.
TCR_ProcessData ==
    /\ report = "tcr"
    /\ pc = "process"
    /\ LET f == CostsDict(<<>>, first_month_data)
           s == CostsDict(<<>>, second_month_data)
       IN  IF f.error # "none" \/ s.error # "none"
           THEN /\ error' = "ValueError"
                /\ pc' = "failed"
                /\ UNCHANGED merged_df
           ELSE \E order \in Orderings(AllProjects(f.value, s.value)) :
                   LET r == TCR_Frame(f.value, s.value, order,
                                      first_month, second_month)
                   IN  /\ merged_df' = r.value
                       /\ error' = r.error
                       /\ pc' = IF r.error = "none" THEN "excel" ELSE "failed"
    /\ UNCHANGED <<today, run, report, billing, psr_vars, first_month,
                   second_month, first_month_data, second_month_data, file,
                   writes, previous_output>>
    /\ UNCHANGED <<name_vars, key_vars>>

\* generate_excel, the ExcelWriter block: one sheet, 'Report'.
TCR_WriteSheet ==
    /\ report \in {"tcr", "tcs"}
    /\ pc = "excel"
    /\ file' = [status |-> "data",
                sheets |-> <<[sheet_name |-> <<"R","e","p","o","r","t">>,
                              df |-> merged_df]>>]
    /\ writes' = writes + 1
    /\ pc' = "format"
    /\ UNCHANGED <<today, run, report, billing, psr_vars, tcr_vars, error,
                   previous_output>>
    /\ UNCHANGED <<name_vars, key_vars>>

(***************************************************************************)
(* total_costs_report.py                                                   *)
(***************************************************************************)
\* fetch_cost_data: the query, and the list report_data made of its answer.
TCS_FetchFirst ==
    /\ report = "tcs"
    /\ pc = "fetch_first"
    /\ LET query == [TimePeriod |-> first_month, GroupBy |-> "TAG"]
       IN  \E groups \in Answers(query, Responses(ProjectGroups, MaxRecords)) :
              LET r == ReportData(<<>>, groups)
              IN  /\ first_month_data' = r.value
                  /\ error' = r.error
                  /\ pc' = IF r.error = "none" THEN "fetch_second" ELSE "failed"
                  /\ billing' = Answered(query, groups)
    /\ UNCHANGED <<today, run, report, psr_vars, first_month, second_month,
                   second_month_data, merged_df, file, writes, previous_output>>
    /\ UNCHANGED <<name_vars, key_vars>>

TCS_FetchSecond ==
    /\ report = "tcs"
    /\ pc = "fetch_second"
    /\ LET query == [TimePeriod |-> second_month, GroupBy |-> "TAG"]
       IN  \E groups \in Answers(query, Responses(ProjectGroups,
                                     MaxRecords - Len(first_month_data))) :
              LET r == ReportData(<<>>, groups)
              IN  /\ second_month_data' = r.value
                  /\ error' = r.error
                  /\ pc' = IF r.error = "none" THEN "process" ELSE "failed"
                  /\ billing' = Answered(query, groups)
    /\ UNCHANGED <<today, run, report, psr_vars, first_month, second_month,
                   first_month_data, merged_df, file, writes, previous_output>>
    /\ UNCHANGED <<name_vars, key_vars>>

\* Lines 76 to 105.
TCS_Merge ==
    /\ report = "tcs"
    /\ pc = "process"
    /\ LET r == TCS_Frame(first_month_data, second_month_data,
                          first_month, second_month)
       IN  /\ merged_df' = r.value
           /\ error' = r.error
           /\ pc' = IF r.error = "none" THEN "excel" ELSE "failed"
    /\ UNCHANGED <<today, run, report, billing, psr_vars, first_month,
                   second_month, first_month_data, second_month_data, file,
                   writes, previous_output>>
    /\ UNCHANGED <<name_vars, key_vars>>

(***************************************************************************)
(* The second half of generate_excel: the workbook is loaded, given its    *)
(* title and fills, and saved over the file.                               *)
(***************************************************************************)
\* The fills of generate_excel.
light_yellow == "FFFFE0"

light_cyan == "E0FFFF"

red_fill == "FFCCCC"

green_fill == "C6EFCE"

\* to_excel(startrow=2, index=False): the header stands in this row of the
\* sheet, the rows of the frame below it.
HeaderRow == 3

\* The columns the formatting loop walks.
MaxCol == 4

\* sheet.max_row of a sheet written from df.
max_row(df) == HeaderRow + Len(df.rows)

\* The cell of a written sheet: a heading, a text, a number, or nothing
\* where the frame holds NaN.
CellAt(df, row, col) ==
    IF row = HeaderRow
    THEN [kind |-> "text", value |-> df.columns[col]]
    ELSE LET v == df.rows[row - HeaderRow][df.columns[col]]
         IN  IF col = 1 THEN [kind |-> "text", value |-> v]
             ELSE IF IsNaN(v) THEN [kind |-> "empty", value |-> 0]
             ELSE [kind |-> "number", value |-> v]

\* float(cell.value or 0) inside try ... except (ValueError, TypeError).
FloatOr0(cell) ==
    IF cell.kind = "number" THEN [ok |-> TRUE, value |-> cell.value]
    ELSE IF cell.kind = "empty" THEN [ok |-> TRUE, value |-> 0]
    ELSE [ok |-> FALSE, value |-> 0]

\* The branch of the formatting loop for one cell.
CellFill(cell, col) ==
    IF col = MaxCol
    THEN LET f == FloatOr0(cell)
         IN  IF ~f.ok THEN light_cyan
             ELSE IF f.value > 0 THEN red_fill
             ELSE IF f.value < 0 THEN green_fill
             ELSE light_cyan
    ELSE IF col = 1 THEN light_yellow ELSE light_cyan

\* The fills of a sheet after the loop over
\* iter_rows(min_row=3, max_row=last_row, min_col=1, max_col=4), and the
\* fill given to the title cell.
SheetFills(df, last_row) ==
    [cell \in {<<1, 1>>} \cup ((HeaderRow..last_row) \X (1..MaxCol)) |->
        IF cell = <<1, 1>> THEN light_yellow
        ELSE CellFill(CellAt(df, cell[1], cell[2]), cell[2])]

\* "Report Period: {..} to {..} & {..} to {..}": the four dates it shows.
Title ==
    IF report = "psr"
    THEN <<time_period_previous.Start, time_period_previous.End,
           time_period_current.Start, time_period_current.End>>
    ELSE <<first_month.start_date, first_month.end_date,
           second_month.start_date, second_month.end_date>>

\* last_row: sheet.max_row in the two classes, 2 + len(merged_df) in
\* total_costs_report.py.
last_row(df) == IF report = "tcs" THEN 2 + Len(df.rows) ELSE max_row(df)

FormatSheet(sheet) ==
    [sheet_name |-> sheet.sheet_name,
     df         |-> sheet.df,
     title      |-> Title,
     fills      |-> SheetFills(sheet.df, last_row(sheet.df))]

Format ==
    /\ pc = "format"
    /\ file' = [status |-> "formatted",
                sheets |-> [i \in DOMAIN file.sheets |->
                               FormatSheet(file.sheets[i])]]
    /\ writes' = writes + 1
    /\ pc' = "done"
    /\ UNCHANGED <<today, run, report, billing, psr_vars, tcr_vars, error,
                   previous_output>>
    /\ UNCHANGED <<name_vars, key_vars>>

(***************************************************************************)
(* The file system refuses the second half of generate_excel: load_workbook *)
(* raises and the file stays as the first half wrote it, or workbook.save  *)
(* raises after it has opened the file to write.                           *)
(***************************************************************************)
FormatFails ==
    /\ pc = "format"
    /\ \E step \in {"load_workbook", "save"} :
          /\ file' = IF step = "save"
                     THEN [status |-> "partial", sheets |-> <<>>]
                     ELSE file
          /\ writes' = IF step = "save" THEN writes + 1 ELSE writes
    /\ pc' = "failed"
    /\ error' = "OSError"
    /\ UNCHANGED <<today, run, report, billing, psr_vars, tcr_vars,
                   previous_output>>
    /\ UNCHANGED <<name_vars, key_vars>>

Next ==
    \/ \E choice \in {"psr", "tcr", "tcs"} : Menu(choice)
    \/ Restart
    \/ PSR_FetchCurrent
    \/ PSR_FetchPrevious
    \/ PSR_ProcessData
    \/ PSR_WriteSheets
    \/ TCR_FetchFirst
    \/ TCR_FetchSecond
    \/ TCR_ProcessData
    \/ TCR_WriteSheet
    \/ TCS_FetchFirst
    \/ TCS_FetchSecond
    \/ TCS_Merge
    \/ Format
    \/ FormatFails

Spec == Init /\ [][Next]_vars

(***************************************************************************)
(* The naming loop of generate_excel (lines 70 to 73; projectwise.py,      *)
(* lines 90 to 94) on its own: the keys of project_costs, which are        *)
(* distinct, are named one after the other.                                *)
(***************************************************************************)
\* The most projects of one report.
MaxProjects == 3

Pad28 == [i \in 1..MaxSheetBase |-> "p"]

\* Project keys: some that differ in case only, one that is another's
\* suffixed name, blank ones, and keys of 28 to 30 characters that share
\* their first 28.
ProjectKeys ==
    { <<"X">>, <<"x">>, <<"X","_","1">>, <<>>, <<" ">>, UnnamedProject,
      Pad28, Pad28 \o <<"a">>, Pad28 \o <<"_","1">> }

NameSheet(project) ==
    /\ Len(named) < MaxProjects
    /\ \A i \in DOMAIN named : named[i].project # project
    /\ LET sheet_name == get_unique_sheet_name(project, used_sheet_names)
       IN  /\ used_sheet_names' = used_sheet_names \cup {sheet_name}
           /\ named' = Append(named, [project |-> project,
                                      sheet_name |-> sheet_name])
    /\ UNCHANGED <<run_vars, key_vars>>

NextNames == \E project \in ProjectKeys : NameSheet(project)

InitNames == Init /\ today = <<2024, 3, 31>>

SpecNames == InitNames /\ [][NextNames]_vars

(***************************************************************************)
(* The project of one group on its own: the three expressions that make a  *)
(* project of item['Keys'] (aws-cost-report.py, lines 47 and 175;          *)
(* total_costs_report.py, line 59; projectwise.py, line 60), each applied  *)
(* to a list of key components.                                            *)
(***************************************************************************)
\* The longest list of key components.
MaxKeys == 2

\* A Project tag whose value holds a '$'.
TagAB == ProjectPrefix \o <<"A","$","B">>

\* A component that holds the prefix without starting with it.
NotATag == <<"X","$">> \o TagA

KeyParts == {TagA, TagNone, TagAB, NotATag, EC2, S3}

KeyLists == UNION {[1..k -> KeyParts] : k \in 1..MaxKeys}

\* A group arrives.
ReceiveKeys ==
    /\ project_key.by = "idle"
    /\ keys' \in KeyLists
    /\ project_key' = [by |-> "given", value |-> <<>>]
    /\ UNCHANGED <<run_vars, name_vars>>

\* ProjectServiceReport.process_data, and projectwise.py.
PSR_ProjectKey ==
    /\ project_key.by = "given"
    /\ project_key' = [by |-> "psr", value |-> ProjectTagOf(keys)]
    /\ UNCHANGED <<run_vars, name_vars, keys>>

\* TotalCostsReport.process_data.
TCR_ProjectKey ==
    /\ project_key.by = "given"
    /\ project_key' = [by |-> "tcr", value |-> FirstKeyProject(keys)]
    /\ UNCHANGED <<run_vars, name_vars, keys>>

\* total_costs_report.py, fetch_cost_data.
TCS_ProjectKey ==
    /\ project_key.by = "given"
    /\ project_key' = [by |-> "tcs", value |-> ProjectTagOf(keys)]
    /\ UNCHANGED <<run_vars, name_vars, keys>>

NextKeys ==
    \/ ReceiveKeys
    \/ PSR_ProjectKey
    \/ TCR_ProjectKey
    \/ TCS_ProjectKey

SpecKeys == InitNames /\ [][NextKeys]_vars


(***************************************************************************)
(* What the claims speak of: the raw records of the two periods, and the   *)
(* rows of the saved report.                                               *)
(***************************************************************************)
\* d1 is a later day than d2.
Later(d1, d2) ==
    \/ d1[1] > d2[1]
    \/ d1[1] = d2[1] /\ d1[2] > d2[2]
    \/ d1[1] = d2[1] /\ d1[2] = d2[2] /\ d1[3] > d2[3]

\* The two windows of the run, in the order the program fetches them.
Windows ==
    IF report = "psr" THEN <<time_period_current, time_period_previous>>
    ELSE <<first_month, second_month>>

WindowStart(w) == IF report = "psr" THEN w.Start ELSE w.start_date

\* The more recent ("current") and the older ("previous") of the two.
RecentWindow ==
    IF Later(WindowStart(Windows[1]), WindowStart(Windows[2]))
    THEN Windows[1] ELSE Windows[2]

OlderWindow ==
    IF Later(WindowStart(Windows[1]), WindowStart(Windows[2]))
    THEN Windows[2] ELSE Windows[1]

\* The raw records the billing source returned for a window.
GroupsFor(w) ==
    IF \E i \in DOMAIN billing : billing[i].query.TimePeriod = w
    THEN billing[CHOOSE i \in DOMAIN billing :
                    billing[i].query.TimePeriod = w].groups
    ELSE <<>>

RecentGroups == GroupsFor(RecentWindow)

OlderGroups == GroupsFor(OlderWindow)

\* The entity key of a raw record: (project, service), or (project).
KeyOf(group) ==
    IF report = "psr" THEN <<ProjectTagOf(group.Keys), ServiceOf(group.Keys)>>
    ELSE IF report = "tcr" THEN <<FirstKeyProject(group.Keys)>>
    ELSE <<ProjectTagOf(group.Keys)>>

KeysIn(groups) == {KeyOf(groups[i]) : i \in DOMAIN groups}

EntityKeys == KeysIn(RecentGroups) \cup KeysIn(OlderGroups)

\* No period holds two records of the same entity.
OneRecordPerKey(groups) ==
    \A i, j \in DOMAIN groups : KeyOf(groups[i]) = KeyOf(groups[j]) => i = j

Unambiguous == OneRecordPerKey(RecentGroups) /\ OneRecordPerKey(OlderGroups)

\* The raw amount of an entity in a period, 0 when the period has none.
RawAmount(groups, key) ==
    IF \E i \in DOMAIN groups : KeyOf(groups[i]) = key
    THEN AmountOf(groups[CHOOSE i \in DOMAIN groups :
                            KeyOf(groups[i]) = key]).value
    ELSE 0

RECURSIVE RawSum(_)
RawSum(groups) ==
    IF groups = <<>> THEN 0
    ELSE AmountOf(Head(groups)).value + RawSum(Tail(groups))

\* The projects of the raw records, each once, in the order of the records.
RECURSIVE ProjectsOf(_, _)
ProjectsOf(seen, groups) ==
    IF groups = <<>> THEN seen
    ELSE LET project == KeyOf(Head(groups))[1]
         IN  ProjectsOf(IF \E i \in DOMAIN seen : seen[i] = project
                        THEN seen ELSE Append(seen, project),
                        Tail(groups))

ProjectsInOrder == ProjectsOf(<<>>, GroupsFor(Windows[1]) \o GroupsFor(Windows[2]))

\* The run has saved its report.
Produced == pc = "done"

Tables == file.sheets

\* The project a table of the project/service report is about: the tables
\* follow the projects in the order of the records.
TableProject(t) == ProjectsInOrder[t]

DataRows(df) == SubSeq(df.rows, 1, Len(df.rows) - 1)

LastRow(df) == df.rows[Len(df.rows)]

KeyColumn == IF report = "psr" THEN ServiceCol ELSE ProjectCol

RecentColumn == IF report = "psr" THEN CurrentCol ELSE CostOf(RecentWindow)

OlderColumn == IF report = "psr" THEN PreviousCol ELSE CostOf(OlderWindow)

DifferenceColumn == IF report = "psr" THEN DifferenceCol ELSE DiffCol

\* The places of the data rows of the report, and the entity of each.
RowPlaces ==
    UNION { {<<t, r>> : r \in 1..Len(DataRows(Tables[t].df))} :
            t \in DOMAIN Tables }

RowAt(p) == Tables[p[1]].df.rows[p[2]]

RowKey(p) ==
    IF report = "psr" THEN <<TableProject(p[1]), RowAt(p)[ServiceCol]>>
    ELSE <<RowAt(p)[ProjectCol]>>

RowsOf(key) == {p \in RowPlaces : RowKey(p) = key}

\* The groups of one project.
OfProject(groups, project) ==
    SelectSeq(groups, LAMBDA g : KeyOf(g)[1] = project)

(***************************************************************************)
(* The claims.                                                             *)
(***************************************************************************)

\* C1: every entity key of the current or the previous period's records has
\* exactly one data row in the saved report (project/service report, total
\* cost report, and the total cost script).
C1_Completeness ==
    Produced => \A key \in EntityKeys : Cardinality(RowsOf(key)) = 1


\* The tables of a project in the project/service report.
TablesOf(project) == {t \in DOMAIN Tables : TableProject(t) = project}

ServicesIn(groups, project) ==
    {KeyOf(groups[i])[2] :
        i \in {j \in DOMAIN groups : KeyOf(groups[j])[1] = project}}

TableServices(t) ==
    {DataRows(Tables[t].df)[r][ServiceCol] :
        r \in DOMAIN DataRows(Tables[t].df)}

\* A project of the previous period alone has one table, with exactly its
\* previous-period services.
PreviousOnlyProjectsKept ==
    \A project \in {k[1] : k \in KeysIn(OlderGroups)} \ {k[1] : k \in KeysIn(RecentGroups)} :
        /\ Cardinality(TablesOf(project)) = 1
        /\ \A t \in TablesOf(project) :
              TableServices(t) = ServicesIn(OlderGroups, project)

\* C2, as stated: in the project/service report a project of the previous
\* period alone keeps a table with all its services; a row of the previous
\* period alone has current = 0, previous = the raw previous amount and
\* difference = -previous; a row of the current period alone has previous = 0
\* and difference = +current.
C2_ZeroFillRaw ==
    (Produced /\ report = "psr" /\ Unambiguous) =>
        /\ PreviousOnlyProjectsKept
        /\ \A key \in KeysIn(OlderGroups) \ KeysIn(RecentGroups) :
              /\ RowsOf(key) # {}
              /\ \A p \in RowsOf(key) :
                    /\ RowAt(p)[CurrentCol] = 0
                    /\ RowAt(p)[PreviousCol] = RawAmount(OlderGroups, key)
                    /\ RowAt(p)[DifferenceCol] = 0 - RowAt(p)[PreviousCol]
        /\ \A key \in KeysIn(RecentGroups) \ KeysIn(OlderGroups) :
              /\ RowsOf(key) # {}
              /\ \A p \in RowsOf(key) :
                    /\ RowAt(p)[PreviousCol] = 0
                    /\ RowAt(p)[DifferenceCol] = RowAt(p)[CurrentCol]

\* C2, amended: the same, the previous amount of the row being the raw
\* previous amount rounded to two decimals (and the current amount of a row
\* of the current period alone the raw current amount rounded likewise).
C2_ZeroFill ==
    (Produced /\ report = "psr" /\ Unambiguous) =>
        /\ PreviousOnlyProjectsKept
        /\ \A key \in KeysIn(OlderGroups) \ KeysIn(RecentGroups) :
              /\ RowsOf(key) # {}
              /\ \A p \in RowsOf(key) :
                    /\ RowAt(p)[CurrentCol] = 0
                    /\ RowAt(p)[PreviousCol] = Round2(RawAmount(OlderGroups, key))
                    /\ RowAt(p)[DifferenceCol] = 0 - RowAt(p)[PreviousCol]
        /\ \A key \in KeysIn(RecentGroups) \ KeysIn(OlderGroups) :
              /\ RowsOf(key) # {}
              /\ \A p \in RowsOf(key) :
                    /\ RowAt(p)[PreviousCol] = 0
                    /\ RowAt(p)[CurrentCol] = Round2(RawAmount(RecentGroups, key))
                    /\ RowAt(p)[DifferenceCol] = RowAt(p)[CurrentCol]

\* A saved project/service report of a project that the current period does
\* not have at all, with two services, one of them of an amount that
\* rounding changes.
C2_Witness ==
    /\ Produced /\ report = "psr" /\ Unambiguous
    /\ RecentGroups = <<>>
    /\ Cardinality(KeysIn(OlderGroups)) = 2
    /\ Cardinality({k[1] : k \in KeysIn(OlderGroups)}) = 1
    /\ \E key \in KeysIn(OlderGroups) :
          RawAmount(OlderGroups, key) # Round2(RawAmount(OlderGroups, key))

\* C3: in every table of a saved report, the difference of a data row is the
\* more recent period's amount less the older period's.
C3_DifferenceDirection ==
    (Produced /\ Unambiguous) =>
        \A p \in RowPlaces :
            RowAt(p)[DifferenceColumn] =
                Round2(RawAmount(RecentGroups, RowKey(p))
                         - RawAmount(OlderGroups, RowKey(p)))

\* The raw records a table is about: those of its project in the
\* project/service report, all of them in a total cost report.
TableGroups(groups, t) ==
    IF report = "psr" THEN OfProject(groups, TableProject(t)) ELSE groups

\* C4: the totals row holds round(sum of the raw current amounts, 2),
\* round(sum of the raw previous amounts, 2) and round(the one sum less the
\* other, 2).
C4_TotalsFromRaw ==
    (Produced /\ Unambiguous) =>
        \A t \in DOMAIN Tables :
            LET total    == LastRow(Tables[t].df)
                current  == RawSum(TableGroups(RecentGroups, t))
                previous == RawSum(TableGroups(OlderGroups, t))
            IN  /\ total[RecentColumn] = Round2(current)
                /\ total[OlderColumn] = Round2(previous)
                /\ total[DifferenceColumn] = Round2(current - previous)

\* C5: in every table of a saved report the data rows are in non-increasing
\* order of the current period's amount, and the one totals row is the last
\* row.
C5_SortedTotalsLast ==
    Produced =>
        \A t \in DOMAIN Tables :
            LET rows == DataRows(Tables[t].df)
            IN  /\ \A i, j \in DOMAIN rows :
                      i < j => rows[i][RecentColumn] >= rows[j][RecentColumn]
                /\ Len(Tables[t].df.rows) >= 1
                /\ LastRow(Tables[t].df)[KeyColumn] = TotalLabel
                /\ \A i \in DOMAIN rows : rows[i][KeyColumn] # TotalLabel


\* C6: the names given to any sequence of distinct project keys are as many
\* as the keys, and pairwise distinct without regard to case.
C6_NamesUnique ==
    /\ used_sheet_names = {named[i].sheet_name : i \in DOMAIN named}
    /\ Cardinality(used_sheet_names) = Len(named)
    /\ \A a, b \in used_sheet_names : Lower(a) = Lower(b) => a = b

\* Three keys were named, and the second and the third each met a name in
\* use: keys with the same first 28 characters, keys that differ in case, a
\* key that is an earlier suffixed name.
C6_Witness ==
    /\ Len(named) = 3
    /\ \A i \in 2..3 :
          \E j \in 1..(i - 1) :
              Lower(Slice(named[i].project, 28)) = Lower(named[j].sheet_name)

\* The name the claim derives for a project, given the names in use.
ExpectedName(project, used) ==
    LET blank       == \A i \in DOMAIN project : project[i] \in Whitespace
        base        == IF blank THEN UnnamedProject
                       ELSE [i \in 1..(IF Len(project) < 28 THEN Len(project)
                                       ELSE 28) |-> project[i]]
        taken(n)    == \E u \in used : Lower(u) = Lower(n)
        suffixed(k) == base \o <<"_">> \o IntToStr(k)
    IN  IF ~taken(base) THEN base
        ELSE suffixed(CHOOSE k \in 1..(Cardinality(used) + 1) :
                         /\ ~taken(suffixed(k))
                         /\ \A m \in 1..(k - 1) : taken(suffixed(m)))

\* C7: the name of a project is its base (its first 28 characters, or
\* 'Unnamed_Project' for an empty or blank key) when no name in use equals
\* it without regard to case, and else base_k for the least k >= 1 that is
\* free.
C7_NameDerivation ==
    \A i \in DOMAIN named :
        named[i].sheet_name =
            ExpectedName(named[i].project,
                         {named[j].sheet_name : j \in 1..(i - 1)})

\* A third key got the suffix _2, and a blank key its fallback name.
C7_Witness ==
    /\ Len(named) = 3
    /\ \/ named[3].sheet_name = Pad28 \o <<"_","2">>
       \/ /\ named[1].project = <<" ">>
          /\ named[3].sheet_name = UnnamedProject \o <<"_","1">>

\* C8: a second run on the same records and the same day saves the same
\* report as the first: the same tables, names and rows, in the same order.
C8_Deterministic ==
    (Produced /\ run >= 2) => file.sheets = previous_output.sheets

\* The run is over.
Ended == pc \in {"done", "failed"}

AllZero(row) ==
    row[RecentColumn] = 0 /\ row[OlderColumn] = 0 /\ row[DifferenceColumn] = 0

\* C9: when both responses are empty, the run of either report class ends
\* without an error, with no data row and a totals row of zeros.
C9_EmptyTolerated ==
    (/\ report \in {"psr", "tcr"}
     /\ Ended
     /\ RecentGroups = <<>> /\ OlderGroups = <<>>) =>
        /\ pc = "done"
        /\ error = "none"
        /\ \A t \in DOMAIN Tables :
              /\ DataRows(Tables[t].df) = <<>>
              /\ AllZero(LastRow(Tables[t].df))

\* Some record returned to this run has an amount that is no number.
Malformed(groups) ==
    \E i \in DOMAIN groups :
        ~ParseFloat(groups[i].Metrics.UnblendedCost.Amount).ok

AnyMalformed == \E i \in DOMAIN billing : Malformed(billing[i].groups)

\* C10: a record with an amount that is no number ends the run in an error,
\* before the output file is opened: the run goes no further than parsing,
\* it can end only as failed with ValueError, no row and no table is made,
\* and the file is as it was.
C10_MalformedFatal ==
    AnyMalformed =>
        /\ pc \in {"fetch_second", "process", "failed"}
        /\ Ended => pc = "failed" /\ error = "ValueError"
        /\ writes = 0
        /\ file = previous_output
        /\ project_costs = <<>>
        /\ merged_df = NoFrame

\* A run of the project/service report that failed on a malformed amount in
\* the previous period, after a good record of the current period; and the
\* like for the total cost report.
C10_Witness ==
    /\ pc = "failed"
    /\ report \in {"psr", "tcr"}
    /\ Len(billing) = 2
    /\ billing[1].groups # <<>>
    /\ ~Malformed(billing[1].groups)
    /\ Malformed(billing[2].groups)

(***************************************************************************)
(* The output file of a run that failed.                                   *)
(***************************************************************************)
Failed == pc = "failed"

\* The file holds a finished report: every sheet written, titled and filled.
Finished(f) ==
    /\ f.status = "formatted"
    /\ f.sheets # <<>>
    /\ \A i \in DOMAIN f.sheets : "fills" \in DOMAIN f.sheets[i]

\* C11: after a run that failed, at whatever step, the output file is as it
\* was before the run (absent, or the report of the run before), or it
\* holds the finished report; it never holds an intermediate state.
C11_NoPartialOutput ==
    Failed => (file = previous_output \/ Finished(file))

(***************************************************************************)
(* The project of a list of key components.                                *)
(***************************************************************************)
\* The components that start with the prefix, in their order.
TagsAmong(components) == SelectSeq(components, IsProjectTag)

\* All that follows the prefix in a component that starts with it.
AfterPrefix(tag) == SubSeq(tag, Len(ProjectPrefix) + 1, Len(tag))

\* C12: the project made of a list of key components is all that follows
\* 'Project$' in the first component that starts with it, a further '$'
\* included, and it is 'No Project Tag' exactly when no component starts
\* with it; in each of the programs.
C12_ProjectKey ==
    project_key.by \in {"psr", "tcr", "tcs"} =>
        /\ TagsAmong(keys) # <<>> =>
              project_key.value = AfterPrefix(Head(TagsAmong(keys)))
        /\ TagsAmong(keys) = <<>> <=> project_key.value = NoProjectTag

(***************************************************************************)
(* The fills of a saved report.                                            *)
(***************************************************************************)
\* The saved file went through the formatting pass.
Formatted == file.status = "formatted"

\* The rows of a sheet that hold the data rows and the totals row of its
\* table.
TableRows(sheet) == (HeaderRow + 1)..(HeaderRow + Len(sheet.df.rows))

\* The value the table has in a row of the sheet, under its k-th heading.
ValueAt(sheet, row, k) == sheet.df.rows[row - HeaderRow][sheet.df.columns[k]]

\* The cell has been given this fill.
Filled(sheet, row, k, fill) ==
    <<row, k>> \in DOMAIN sheet.fills /\ sheet.fills[<<row, k>>] = fill

\* The style categories and the fills that stand for them.
Increase == red_fill

Decrease == green_fill

Neutral == light_cyan

DifferenceCategory(v) ==
    IF IsNaN(v) THEN Neutral
    ELSE IF v > 0 THEN Increase
    ELSE IF v < 0 THEN Decrease
    ELSE Neutral

\* C13: in a saved report every cell of the difference column in a data row
\* or the totals row is filled 'increase' when its value is above 0,
\* 'decrease' when it is below 0, and 'neutral' when it is 0 or no number.
C13_DifferenceStyle ==
    Formatted =>
        \A i \in DOMAIN file.sheets :
            \A row \in TableRows(file.sheets[i]) :
                Filled(file.sheets[i], row, MaxCol,
                       DifferenceCategory(ValueAt(file.sheets[i], row, MaxCol)))

\* The fills that stand for the two categories of the cell roles.
CategoryA == light_yellow

CategoryB == light_cyan

\* The rows of a sheet that hold the data rows of its table, the totals row
\* left out.
DataRowsOf(sheet) == TableRows(sheet) \ {HeaderRow + Len(sheet.df.rows)}

\* C14: in every sheet of a saved report the title cell and the four
\* heading cells are of category A, the key cell of every data row is of
\* category A, and the cells of the two amount columns are of category B.
C14_RoleStyle ==
    Formatted =>
        \A i \in DOMAIN file.sheets :
            LET sheet == file.sheets[i]
            IN  /\ Filled(sheet, 1, 1, CategoryA)
                /\ \A k \in 1..MaxCol : Filled(sheet, HeaderRow, k, CategoryA)
                /\ \A row \in DataRowsOf(sheet) : Filled(sheet, row, 1, CategoryA)
                /\ \A row \in DataRowsOf(sheet) :
                      \A k \in {2, 3} : Filled(sheet, row, k, CategoryB)

(***************************************************************************)
(* The windows of the project/service report.                              *)
(***************************************************************************)
\* The first day of the month after that of d.
FollowingMonth(d) ==
    IF d[2] = 12 THEN <<d[1] + 1, 1, 1>> ELSE <<d[1], d[2] + 1, 1>>

\* The window ends on the first day of the month after its start, which is
\* later than its start.
WellFormed(w) == w.End = FollowingMonth(w.Start) /\ Later(w.End, w.Start)

\* The project/service report has computed its windows.
WindowsComputed == report = "psr" /\ time_period_current # NoWindow

\* C15: whatever the day of the run, each of the two windows of
\* get_time_periods ends on the first day of the month after its start,
\* the year advanced after December, and the previous window ends where
\* the current one starts.
C15_WindowsWellFormed ==
    WindowsComputed =>
        /\ WellFormed(time_period_current)
        /\ WellFormed(time_period_previous)
        /\ time_period_previous.End = time_period_current.Start

=============================================================================
